---------------------------- MODULE Spec2Model ----------------------------
(***************************************************************************)
(* State-machine model of the two notification services:                   *)
(*   - the Queue Processor   (process-queue.js, listed in src/README.md),  *)
(*   - the Webhook Receiver, generic shape (src/chatwoot-webhook.js),      *)
(*   - the Webhook Receiver, ticketing shape (handler in src/README.md).   *)
(* Every request handler is cut at its awaits: one action is one awaited   *)
(* datastore or gateway call together with the synchronous code that runs  *)
(* up to the next await.  The datastore applies one query or bulk update   *)
(* atomically.  A datastore call reports an error exactly where the source *)
(* reads the call's error; a call whose result the source discards is      *)
(* taken as applied.                                                       *)
(***************************************************************************)
EXTENDS Integers, Sequences, FiniteSets, TLC

(***************************************************************************)
(* Bounds of the model.  BATCH_SIZE and CHUNK_SIZE carry the source's      *)
(* names; the source sets them to 500 and 100 (src/README.md lines 56-57), *)
(* the model scales them down so that a batch limit and a multi-chunk      *)
(* delivery happen with a handful of queue entries.                        *)
(***************************************************************************)
BATCH_SIZE == 2

CHUNK_SIZE == 2

MaxTime == 1

Priorities == {1, 2}

\* sent_at of a row never sent (SQL NULL).
NoTime == 0 - 1

EntryIds == {1, 2, 3}

\* The trigger requests in flight at once.
Procs == {1, 2}

Users == {"ua", "ub"}

Tokens == {"t1", "t2", "t3"}

\* The rows of profile_push_tokens in the order an unordered query returns them.
TokenOrder == <<"t1", "t2", "t3">>

\* Fixed columns of the modelled rows: the owner of each device token and the
\* recipient of each queue entry (alternating between the two users).
TokenUser(t) == IF t = "t3" THEN "ub" ELSE "ua"

EntryUser(e) == IF e % 2 = 0 THEN "ub" ELSE "ua"

Min(a, b) == IF a < b THEN a ELSE b

Range(s) == {s[k] : k \in DOMAIN s}

VARIABLES
    queue,          \* notification_queue: id -> row
    tokens,         \* profile_push_tokens: push token -> row
    now,            \* the clock read by new Date()
    pc,             \* per invocation: the await it is suspended at
    notifications,  \* per invocation: ids of the selected rows, in query order
    messages,       \* per invocation: the push messages built
    idx,            \* per invocation: loop variable i of the chunk loop
    totalSent,      \* per invocation
    invalidTokens,  \* per invocation
    resp,           \* per invocation: the HTTP response sent
    logged,         \* per invocation: console.error tags
    calls,          \* history: the gateway calls made, each {chunk, kind}
    reported,       \* history: the recipients the gateway reported unregistered
    deact,          \* history: tokens named by the invocation's deactivating update
    seen,           \* history: invocations whose 'processing' update was applied
                    \*          when this one ran its select
    selQueue,       \* history: the table as the select read it
    selNow,         \* history: the clock as the select read it
    selTokens,      \* history: the token table as it was when the select ran
    prev,           \* history: how the last trigger request to return went, while
                    \*          no pending entry has become due since its select
    webhook,        \* the generic-shape webhook request being handled
    ticketing,      \* the ticketing-shape webhook request being handled
    consultations,  \* consultations: the one row, by its consultant_id
    profiles,       \* profiles: the rows with role admin or author
    consultation_messages   \* consultation_messages: the rows, in insertion order

vars == <<queue, tokens, now, pc, notifications, messages, idx, totalSent,
          invalidTokens, resp, logged, calls, reported, deact, seen, selQueue,
          selNow, selTokens, prev, webhook, ticketing, consultations, profiles,
          consultation_messages>>

procLocals == <<notifications, messages, idx, totalSent, invalidTokens>>

history == <<calls, reported, deact, seen, selQueue, selNow, selTokens, prev>>

queueSide == <<queue, now, pc, procLocals, resp, logged, history>>

webhookSide == <<webhook, ticketing, consultations, profiles, consultation_messages>>

(***************************************************************************)
(* Queue Processor: pure parts of app.post('/process-queue').              *)
(***************************************************************************)

\* DuePending without the status filter on rows being processed.
DuePendingAnyStatus(q, t) ==
    {e \in EntryIds : q[e].status # "sent" /\ q[e].scheduled_for <= t}

\* .eq('status','pending').lte('scheduled_for', now)
DuePending(q, t) ==
    {e \in EntryIds : q[e].status = "pending" /\ q[e].scheduled_for <= t}

\* Before with the priority order ascending.
BeforeAscending(q, a, b) ==
    \/ q[a].priority < q[b].priority
    \/ q[a].priority = q[b].priority /\ q[a].scheduled_for < q[b].scheduled_for

\* .order('priority', desc).order('scheduled_for', asc): a comes strictly first.
Before(q, a, b) ==
    \/ q[a].priority > q[b].priority
    \/ q[a].priority = q[b].priority /\ q[a].scheduled_for < q[b].scheduled_for

\* Every order of the rows of S the ORDER BY allows (rows that tie come in any order).
OrderedSeqs(q, S) ==
    {s \in [1..Cardinality(S) -> S] :
        /\ \A i, j \in DOMAIN s : i # j => s[i] # s[j]
        /\ \A i, j \in DOMAIN s : i < j => ~Before(q, s[j], s[i])}

\* The results the select of step 1 can return: .limit(BATCH_SIZE) of an allowed order.
SelectPending(q, t) ==
    {SubSeq(s, 1, Min(BATCH_SIZE, Len(s))) : s \in OrderedSeqs(q, DuePending(q, t))}

\* MarkProcessing that updates the first selected row only.
MarkProcessingFirst(q, ids) ==
    [e \in EntryIds |->
        IF e \in ids /\ \A d \in ids : e <= d
        THEN [q[e] EXCEPT !.status = "processing"] ELSE q[e]]

\* MarkProcessing that writes the status the rows already have.
MarkProcessingPending(q, ids) ==
    [e \in EntryIds |->
        IF e \in ids THEN [q[e] EXCEPT !.status = "pending"] ELSE q[e]]

\* .update({status:'processing'}).in('id', ids)
MarkProcessing(q, ids) ==
    [e \in EntryIds |->
        IF e \in ids THEN [q[e] EXCEPT !.status = "processing"] ELSE q[e]]

\* MarkSent without the filter on the ids.
MarkSentEveryRow(q, ids, t) ==
    [e \in EntryIds |-> [q[e] EXCEPT !.status = "sent", !.sent_at = t]]

\* MarkSent restricted to the rows still pending.
MarkSentPendingOnly(q, ids, t) ==
    [e \in EntryIds |->
        IF e \in ids /\ q[e].status = "pending"
        THEN [q[e] EXCEPT !.status = "sent", !.sent_at = t] ELSE q[e]]

\* .update({status:'sent', sent_at: now}).in('id', ids)
MarkSent(q, ids, t) ==
    [e \in EntryIds |->
        IF e \in ids THEN [q[e] EXCEPT !.status = "sent", !.sent_at = t] ELSE q[e]]

\* Object.keys(byUser): the users of the selected rows in order of first appearance.
RECURSIVE UserOrder(_)
UserOrder(ns) ==
    IF ns = <<>> THEN <<>>
    ELSE LET rest == UserOrder(SubSeq(ns, 1, Len(ns) - 1))
             u == EntryUser(ns[Len(ns)])
         IN  IF u \in Range(rest) THEN rest ELSE Append(rest, u)

\* byUser[u]: the selected rows of user u, in query order.
ByUser(ns, u) == SelectSeq(ns, LAMBDA e : EntryUser(e) = u)

\* ActiveTokens without the filter on is_active.
ActiveTokensAnyState(tk, us) == SelectSeq(TokenOrder, LAMBDA t : TokenUser(t) \in us)

\* The rows the token query of step 4 returns: active tokens of the users in us.
ActiveTokens(tk, us) ==
    SelectSeq(TokenOrder, LAMBDA t : TokenUser(t) \in us /\ tk[t].is_active)

\* TokensByUser without the index by user: every user gets every fetched token.
TokensByUserAll(toks, u) == toks

\* tokensByUser[u]
TokensByUser(toks, u) == SelectSeq(toks, LAMBDA t : TokenUser(t) = u)

\* The inner two loops of step 5 for one user: a message per (notification, token).
\* A message is {to, nid}: nid stands for the title, body, data, priority and
\* category copied from notification nid.
RECURSIVE UserMessages(_, _)
UserMessages(ns, toks) ==
    IF ns = <<>> THEN <<>>
    ELSE [k \in 1..Len(toks) |-> [to |-> toks[k], nid |-> ns[1]]]
         \o UserMessages(Tail(ns), toks)

\* Step 5: the message list, user by user; a user without tokens is skipped.
RECURSIVE BuildFor(_, _, _)
BuildFor(us, ns, toks) ==
    IF us = <<>> THEN <<>>
    ELSE UserMessages(ByUser(ns, us[1]), TokensByUser(toks, us[1]))
         \o BuildFor(Tail(us), ns, toks)

BuildMessages(ns, toks) == BuildFor(UserOrder(ns), ns, toks)

\* ChunkAt with the end of the slice one position early.
ChunkAtShort(msgs, i) == SubSeq(msgs, i + 1, Min(i + CHUNK_SIZE - 1, Len(msgs)))

\* messages.slice(i, i + CHUNK_SIZE)
ChunkAt(msgs, i) == SubSeq(msgs, i + 1, Min(i + CHUNK_SIZE, Len(msgs)))

\* A gateway ticket.
TicketOk == [status |-> "ok", error |-> "none"]

TicketUnregistered == [status |-> "error", error |-> "DeviceNotRegistered"]

TicketOther == [status |-> "error", error |-> "MessageRateExceeded"]

TicketKinds == {TicketOk, TicketUnregistered, TicketOther}

\* IsInvalid without the test of the error code.
IsInvalidAnyError(ticket) == ticket.status = "error"

\* The test of the reconciliation loop.
IsInvalid(ticket) ==
    ticket.status = "error" /\ ticket.error = "DeviceNotRegistered"

\* InvalidIn that looks at the first ticket only.
InvalidInFirstOnly(chunk, data) ==
    {chunk[j].to : j \in {k \in DOMAIN data : k = 1 /\ IsInvalid(data[k])}}

\* The tokens the reconciliation loop adds for one response: chunk[j].to for every
\* position j of result.data that passes the test.
InvalidIn(chunk, data) ==
    {chunk[j].to : j \in {k \in DOMAIN data : IsInvalid(data[k])}}

\* CountSent that counts the chunk before the call is known to have succeeded.
CountSentAlways(total, chunk, kind) == total + Len(chunk)

\* totalSent after a call: chunk.length is added once the call returned a success
\* status and its body was read as JSON.
CountSent(total, chunk, kind) == IF kind = "ok" THEN total + Len(chunk) ELSE total

\* Deactivated that writes is_active of every row: false for the listed tokens,
\* true for the others.
DeactivatedOthersActive(tk, ts) ==
    [t \in Tokens |-> [tk[t] EXCEPT !.is_active = (t \notin ts)]]

\* .update({is_active:false}).in('expo_push_token', ts)
Deactivated(tk, ts) ==
    [t \in Tokens |-> IF t \in ts THEN [tk[t] EXCEPT !.is_active = FALSE] ELSE tk[t]]

\* The recipients of a chunk whose ticket the gateway set to DeviceNotRegistered.
Unregistered(chunk, data) ==
    {chunk[j].to : j \in {k \in DOMAIN data : data[k] = TicketUnregistered}}

\* What one gateway call can come to: fetch throws ("network_error"), a non-success
\* status ("http_error"), a success status whose body is no JSON ("malformed"), or a
\* success status with a JSON body ("ok") that carries one ticket per message, or no
\* data at all (data = <<>>).
GatewayOutcomes(chunk) ==
    {[kind |-> k, data |-> <<>>] : k \in {"network_error", "http_error", "malformed", "ok"}}
    \cup {[kind |-> "ok", data |-> d] : d \in [1..Len(chunk) -> TicketKinds]}

\* An HTTP response: its status, the keys of its JSON body, and their values.
Response(status, fields, processed, sent, invalid, error) ==
    [status |-> status, fields |-> fields, ok |-> ("ok" \in fields),
     processed |-> processed, sent |-> sent, invalidTokens |-> invalid,
     error |-> error]

NoResponse == Response(0, {}, 0, 0, 0, "none")

\* res.status(500).json({ error: <message> })
ErrorResponse(error) == Response(500, {"error"}, 0, 0, 0, error)

\* res.json({ ok: true, processed: 0 })
EmptyResponse == Response(200, {"ok", "processed"}, 0, 0, 0, "none")

\* res.json({ ok: true, processed: n, sent: 0 })
NoMessagesResponse(n) == Response(200, {"ok", "processed", "sent"}, n, 0, 0, "none")

\* res.json({ ok: true, processed, sent, invalidTokens, duration_ms })
SummaryResponse(n, sent, invalid) ==
    Response(200, {"ok", "processed", "sent", "invalidTokens", "duration_ms"},
             n, sent, invalid, "none")

\* The history of an invocation that has not run its select: no table read.
NoQueue == [e \in EntryIds |-> [priority |-> 1, scheduled_for |-> 0,
                                 status |-> "sent", sent_at |-> 0]]

NoTokens == [t \in Tokens |-> [is_active |-> FALSE]]

\* The invocation's 'processing' update has been applied.
Marked(p) ==
    \/ pc[p] \in {"tokens", "empty", "send", "deactivate", "final"}
    \/ pc[p] = "done" /\ resp[p].error \notin {"fetch", "update"}
                      /\ resp[p] # EmptyResponse

(***************************************************************************)
(* Queue Processor: the steps of one invocation p.                         *)
(***************************************************************************)

\* Step 1: the select, and the two returns that follow it.
PQSelect(p) ==
    /\ pc[p] = "idle"
    /\ seen' = [seen EXCEPT ![p] = {q \in Procs \ {p} : Marked(q)}]
    /\ selQueue' = [selQueue EXCEPT ![p] = queue]
    /\ selNow' = [selNow EXCEPT ![p] = now]
    /\ selTokens' = [selTokens EXCEPT ![p] = tokens]
    /\ \/ /\ pc' = [pc EXCEPT ![p] = "done"]
          /\ resp' = [resp EXCEPT ![p] = ErrorResponse("fetch")]
          /\ logged' = [logged EXCEPT ![p] = @ \cup {"fetch"}]
          /\ UNCHANGED notifications
       \/ \E ns \in SelectPending(queue, now) :
             /\ notifications' = [notifications EXCEPT ![p] = ns]
             /\ IF ns = <<>>
                THEN /\ pc' = [pc EXCEPT ![p] = "done"]
                     /\ resp' = [resp EXCEPT ![p] = EmptyResponse]
                ELSE /\ pc' = [pc EXCEPT ![p] = "mark"]
                     /\ UNCHANGED resp
             /\ UNCHANGED logged
    /\ UNCHANGED webhookSide
    /\ UNCHANGED <<queue, tokens, now, messages, idx, totalSent, invalidTokens,
                   calls, reported, deact, prev>>

\* Step 2: the bulk update to 'processing'.
PQMarkProcessing(p) ==
    /\ pc[p] = "mark"
    /\ \/ /\ pc' = [pc EXCEPT ![p] = "done"]
          /\ resp' = [resp EXCEPT ![p] = ErrorResponse("update")]
          /\ logged' = [logged EXCEPT ![p] = @ \cup {"update"}]
          /\ UNCHANGED queue
       \/ /\ queue' = MarkProcessing(queue, Range(notifications[p]))
          /\ pc' = [pc EXCEPT ![p] = "tokens"]
          /\ UNCHANGED <<resp, logged>>
    /\ UNCHANGED webhookSide
    /\ UNCHANGED <<tokens, now, procLocals, history>>

\* Steps 3 to 5: group by user, fetch the active tokens, build the messages.
PQFetchTokens(p) ==
    /\ pc[p] = "tokens"
    /\ \/ /\ pc' = [pc EXCEPT ![p] = "done"]
          /\ resp' = [resp EXCEPT ![p] = ErrorResponse("tokens")]
          /\ logged' = [logged EXCEPT ![p] = @ \cup {"tokens"}]
          /\ UNCHANGED messages
       \/ LET userIds == Range(UserOrder(notifications[p]))
              msgs == BuildMessages(notifications[p], ActiveTokens(tokens, userIds))
          IN  /\ messages' = [messages EXCEPT ![p] = msgs]
              /\ pc' = [pc EXCEPT ![p] = IF msgs = <<>> THEN "empty" ELSE "send"]
              /\ UNCHANGED <<resp, logged>>
    /\ UNCHANGED webhookSide
    /\ UNCHANGED <<queue, tokens, now, notifications, idx, totalSent, invalidTokens,
                   history>>

\* The early return of step 5: no message was built.
PQSentNoMessages(p) ==
    /\ pc[p] = "empty"
    /\ queue' = MarkSent(queue, Range(notifications[p]), now)
    /\ pc' = [pc EXCEPT ![p] = "done"]
    /\ resp' = [resp EXCEPT ![p] = NoMessagesResponse(Len(notifications[p]))]
    /\ UNCHANGED webhookSide
    /\ UNCHANGED <<tokens, now, procLocals, logged, history>>

\* Step 6: one pass of the chunk loop (the gateway call, the reconciliation of its
\* tickets, the pause before the next chunk).
PQSendChunk(p) ==
    /\ pc[p] = "send"
    /\ LET chunk == ChunkAt(messages[p], idx[p])
           next == idx[p] + CHUNK_SIZE
       IN  \E out \in GatewayOutcomes(chunk) :
             LET sent == CountSent(totalSent[p], chunk, out.kind)
                 inv == IF out.kind = "ok"
                        THEN invalidTokens[p] \cup InvalidIn(chunk, out.data)
                        ELSE invalidTokens[p]
             IN  /\ calls' = [calls EXCEPT ![p] =
                                 Append(@, [chunk |-> chunk, kind |-> out.kind])]
                 /\ reported' = [reported EXCEPT ![p] =
                                    @ \cup Unregistered(chunk, out.data)]
                 /\ totalSent' = [totalSent EXCEPT ![p] = sent]
                 /\ invalidTokens' = [invalidTokens EXCEPT ![p] = inv]
                 /\ idx' = [idx EXCEPT ![p] = next]
                 /\ pc' = [pc EXCEPT ![p] =
                              IF next < Len(messages[p]) THEN "send"
                              ELSE IF inv # {} THEN "deactivate" ELSE "final"]
    /\ UNCHANGED webhookSide
    /\ UNCHANGED <<queue, tokens, now, notifications, messages, resp, logged, deact,
                   seen, selQueue, selNow, selTokens, prev>>

\* Step 7: the bulk deactivation of the invalid tokens.
PQDeactivate(p) ==
    /\ pc[p] = "deactivate"
    /\ tokens' = Deactivated(tokens, invalidTokens[p])
    /\ deact' = [deact EXCEPT ![p] = @ \cup invalidTokens[p]]
    /\ pc' = [pc EXCEPT ![p] = "final"]
    /\ UNCHANGED webhookSide
    /\ UNCHANGED <<queue, now, procLocals, resp, logged, calls, reported, seen,
                   selQueue, selNow, selTokens, prev>>

\* Step 8 and the response.
PQFinalize(p) ==
    /\ pc[p] = "final"
    /\ \/ /\ logged' = [logged EXCEPT ![p] = @ \cup {"mark_sent"}]
          /\ UNCHANGED queue
       \/ /\ queue' = MarkSent(queue, Range(notifications[p]), now)
          /\ UNCHANGED logged
    /\ pc' = [pc EXCEPT ![p] = "done"]
    /\ resp' = [resp EXCEPT ![p] =
                   SummaryResponse(Len(notifications[p]), totalSent[p],
                                   Cardinality(invalidTokens[p]))]
    /\ UNCHANGED webhookSide
    /\ UNCHANGED <<tokens, now, procLocals, history>>

\* The request is over; the next trigger request starts from a fresh handler.
PQReturn(p) ==
    /\ pc[p] = "done"
    /\ prev' = IF DuePending(selQueue[p], now) # DuePending(selQueue[p], selNow[p])
                  THEN "none"
               ELSE IF logged[p] \cap {"fetch", "update"} # {} THEN "failed"
               ELSE IF Cardinality(DuePending(selQueue[p], selNow[p])) > BATCH_SIZE
                  THEN "partial"
               ELSE "drained"
    /\ pc' = [pc EXCEPT ![p] = "idle"]
    /\ notifications' = [notifications EXCEPT ![p] = <<>>]
    /\ messages' = [messages EXCEPT ![p] = <<>>]
    /\ idx' = [idx EXCEPT ![p] = 0]
    /\ totalSent' = [totalSent EXCEPT ![p] = 0]
    /\ invalidTokens' = [invalidTokens EXCEPT ![p] = {}]
    /\ resp' = [resp EXCEPT ![p] = NoResponse]
    /\ logged' = [logged EXCEPT ![p] = {}]
    /\ calls' = [calls EXCEPT ![p] = <<>>]
    /\ reported' = [reported EXCEPT ![p] = {}]
    /\ deact' = [deact EXCEPT ![p] = {}]
    /\ seen' = [seen EXCEPT ![p] = {}]
    /\ selQueue' = [selQueue EXCEPT ![p] = NoQueue]
    /\ selNow' = [selNow EXCEPT ![p] = 0]
    /\ selTokens' = [selTokens EXCEPT ![p] = NoTokens]
    /\ UNCHANGED webhookSide
    /\ UNCHANGED <<queue, tokens, now>>

\* Time passes.
Tick ==
    /\ now < MaxTime
    /\ now' = now + 1
    /\ prev' = IF DuePending(queue, now + 1) = DuePending(queue, now)
               THEN prev ELSE "none"
    /\ UNCHANGED webhookSide
    /\ UNCHANGED <<queue, tokens, pc, procLocals, resp, logged, calls, reported, deact,
                   seen, selQueue, selNow, selTokens>>

(***************************************************************************)
(* Webhook Receiver, generic shape: app.post('/chatwoot-webhook').         *)
(***************************************************************************)

NoUser == "none"

\* The request bodies: {event, message_type, sender: {type}, contact: {identifier}}.
WebhookBodies ==
    [event : {"message_created", "conversation_updated"},
     message_type : {"incoming", "outgoing"},
     sender_type : {"User", "AgentBot"},
     identifier : Users \cup {NoUser}]

NoBody == [event |-> "none", message_type |-> "none", sender_type |-> "none",
           identifier |-> NoUser]

WebhookIdle ==
    [pc |-> "idle", body |-> NoBody, userId |-> NoUser, messages |-> <<>>,
     data |-> <<>>, idx |-> 0, resp |-> NoResponse, calls |-> <<>>,
     reported |-> {}, deact |-> {}, tokens0 |-> NoTokens]

\* res.json({ ok: true, message })
AckResponse(message) == Response(200, {"ok", "message"}, 0, 0, 0, message)

\* res.status(400).json({ error: 'Missing user identifier' })
MissingIdentifierResponse == Response(400, {"error"}, 0, 0, 0, "identifier")

\* res.status(500).json({ error: 'Expo API error', details })
GatewayErrorResponse == Response(500, {"error", "details"}, 0, 0, 0, "expo")

\* The catch block: res.status(500).json({ error, duration_ms })
FatalResponse == Response(500, {"error", "duration_ms"}, 0, 0, 0, "fatal")

\* res.json({ ok: true, sent: tokens.length, duration_ms })
PushedResponse(n) == Response(200, {"ok", "sent", "duration_ms"}, 0, n, 0, "none")

\* The test of the webhook's cleanup loop.
WebhookIsInvalid(ticket) ==
    ticket.status = "error" /\ ticket.error = "DeviceNotRegistered"

\* The cleanup loop of the webhook runs an awaited update at every position whose
\* ticket passes the test: the first such position after position i, or 0.
NextInvalid(data, i) ==
    LET later == {j \in DOMAIN data : j > i /\ WebhookIsInvalid(data[j])}
    IN  IF later = {} THEN 0 ELSE CHOOSE j \in later : \A k \in later : j <= k

\* tokens.map(t => ({to: t.expo_push_token, ...})): a message per active token.
WebhookMessages(toks) == [k \in 1..Len(toks) |-> [to |-> toks[k], nid |-> 0]]

\* event !== 'message_created' || message_type !== 'incoming'
EventIgnored(b) == b.event # "message_created" \/ b.message_type # "incoming"

\* sender?.type !== 'User'
NotFromUser(b) == b.sender_type # "User"

\* The event filters, and the check of the user identifier.
WHReceive ==
    /\ webhook.pc = "idle"
    /\ \E b \in WebhookBodies :
         LET got == [webhook EXCEPT !.body = b, !.tokens0 = tokens]
         IN  webhook' =
               IF EventIgnored(b)
               THEN [got EXCEPT !.pc = "done", !.resp = AckResponse("Event ignored")]
               ELSE IF NotFromUser(b)
               THEN [got EXCEPT !.pc = "done", !.resp = AckResponse("Not from user")]
               ELSE IF b.identifier = NoUser
               THEN [got EXCEPT !.pc = "done", !.resp = MissingIdentifierResponse]
               ELSE [got EXCEPT !.pc = "tokens", !.userId = b.identifier]
    /\ UNCHANGED <<queueSide, tokens, ticketing, consultations, profiles,
                   consultation_messages>>

\* The token query, and the building of the messages.
WHFetchTokens ==
    /\ webhook.pc = "tokens"
    /\ \/ webhook' = [webhook EXCEPT !.pc = "done", !.resp = ErrorResponse("tokens")]
       \/ LET toks == ActiveTokens(tokens, {webhook.userId})
          IN  webhook' =
                IF toks = <<>>
                THEN [webhook EXCEPT !.pc = "done",
                                     !.resp = AckResponse("No active tokens")]
                ELSE [webhook EXCEPT !.pc = "send",
                                     !.messages = WebhookMessages(toks)]
    /\ UNCHANGED <<queueSide, tokens, ticketing, consultations, profiles,
                   consultation_messages>>

\* The gateway call; with a success response the cleanup loop starts.
WHSend ==
    /\ webhook.pc = "send"
    /\ \E out \in GatewayOutcomes(webhook.messages) :
         LET called == [webhook EXCEPT
                          !.calls = Append(@, [chunk |-> webhook.messages,
                                               kind |-> out.kind]),
                          !.reported = @ \cup Unregistered(webhook.messages, out.data)]
             first == NextInvalid(out.data, 0)
         IN  webhook' =
               IF out.kind \in {"network_error", "malformed"}
               THEN [called EXCEPT !.pc = "done", !.resp = FatalResponse]
               ELSE IF out.kind = "http_error"
               THEN [called EXCEPT !.pc = "done", !.resp = GatewayErrorResponse]
               ELSE IF first = 0
               THEN [called EXCEPT !.pc = "done", !.data = out.data,
                                   !.resp = PushedResponse(Len(webhook.messages))]
               ELSE [called EXCEPT !.pc = "clean", !.data = out.data, !.idx = first]
    /\ UNCHANGED <<queueSide, tokens, ticketing, consultations, profiles,
                   consultation_messages>>

\* One awaited update of the cleanup loop: .update({is_active:false}).eq(token).
WHDeactivate ==
    /\ webhook.pc = "clean"
    /\ LET invalidToken == webhook.messages[webhook.idx].to
           following == NextInvalid(webhook.data, webhook.idx)
       IN  /\ tokens' = Deactivated(tokens, {invalidToken})
           /\ webhook' =
                IF following = 0
                THEN [webhook EXCEPT !.pc = "done", !.deact = @ \cup {invalidToken},
                                     !.resp = PushedResponse(Len(webhook.messages))]
                ELSE [webhook EXCEPT !.idx = following,
                                     !.deact = @ \cup {invalidToken}]
    /\ UNCHANGED <<queueSide, ticketing, consultations, profiles,
                   consultation_messages>>

\* The request is over.
WHReturn ==
    /\ webhook.pc = "done"
    /\ webhook' = WebhookIdle
    /\ UNCHANGED <<queueSide, tokens, ticketing, consultations, profiles,
                   consultation_messages>>

(***************************************************************************)
(* Webhook Receiver, ticketing shape: handler(req, res).                   *)
(***************************************************************************)

\* Bound on the rows of consultation_messages.
MaxMessages == 2

\* The conversation ids a request can carry.
ConversationIds == {7, 12}

Digit(d) ==
    CASE d = 0 -> "0" [] d = 1 -> "1" [] d = 2 -> "2" [] d = 3 -> "3" [] d = 4 -> "4"
      [] d = 5 -> "5" [] d = 6 -> "6" [] d = 7 -> "7" [] d = 8 -> "8" [] d = 9 -> "9"

\* conversation.id.toString(): the decimal digits of a natural number.
RECURSIVE IdToString(_)
IdToString(n) == IF n < 10 THEN Digit(n) ELSE IdToString(n \div 10) \o Digit(n % 10)

\* The request bodies: {event, message: {message_type, sender: {type}},
\* conversation: {id}}.
TicketBodies ==
    [event : {"message_created", "conversation_updated"},
     message_type : {"incoming", "outgoing"},
     sender_type : {"contact", "agent"},
     conversation_id : ConversationIds]

NoTicketBody == [event |-> "none", message_type |-> "none", sender_type |-> "none",
                 conversation_id |-> 0]

NoConsultation ==
    [id |-> "none", user_id |-> NoUser, consultant_id |-> NoUser,
     chatwoot_conversation_id |-> "none"]

TicketIdle ==
    [pc |-> "idle", method |-> "none", body |-> NoTicketBody,
     consultation |-> NoConsultation, senderId |-> NoUser, messageType |-> "none",
     resp |-> NoResponse, rows0 |-> 0]

\* res.status(405).json({ error: 'Method not allowed' })
MethodNotAllowedResponse == Response(405, {"error"}, 0, 0, 0, "method")

\* res.status(200).json({ success: true, message })
IgnoredResponse(message) == Response(200, {"success", "message"}, 0, 0, 0, message)

\* res.status(404).json({ error: 'Consultation not found', conversation_id })
NotFoundResponse == Response(404, {"error", "conversation_id"}, 0, 0, 0, "consultation")

\* res.status(500).json({ error: 'Failed to save message', details })
SaveFailedResponse == Response(500, {"error", "details"}, 0, 0, 0, "save")

\* res.status(200).json({ success: true, message_id, consultation_id })
SavedResponse ==
    Response(200, {"success", "message_id", "consultation_id"}, 0, 0, 0, "none")

\* FindConsultation without the filter on the conversation id.
FindConsultationAnyKey(rows, key) ==
    IF Cardinality(rows) = 1 THEN CHOOSE c \in rows : TRUE ELSE NoConsultation

\* .eq('chatwoot_conversation_id', key).single(): the row, when exactly one matches.
FindConsultation(rows, key) ==
    LET hits == {c \in rows : c.chatwoot_conversation_id = key}
    IN  IF Cardinality(hits) = 1 THEN CHOOSE c \in hits : TRUE ELSE NoConsultation

\* webhook.event !== 'message_created'
NotMessageCreated(b) == b.event # "message_created"

\* Outgoing compared with the wrong literal.
OutgoingMisspelt(b) == b.message_type = "outbound"

\* message.message_type === 'outgoing'
Outgoing(b) == b.message_type = "outgoing"

\* The method check and the two event filters.
TKReceive ==
    /\ ticketing.pc = "idle"
    /\ Len(consultation_messages) < MaxMessages
    /\ \E m \in {"POST", "GET"}, b \in TicketBodies :
         LET got == [ticketing EXCEPT !.method = m, !.body = b,
                                      !.rows0 = Len(consultation_messages)]
         IN  ticketing' =
               IF m # "POST"
               THEN [got EXCEPT !.pc = "done", !.resp = MethodNotAllowedResponse]
               ELSE IF NotMessageCreated(b)
               THEN [got EXCEPT !.pc = "done", !.resp = IgnoredResponse("Event ignored")]
               ELSE IF Outgoing(b)
               THEN [got EXCEPT !.pc = "done",
                                !.resp = IgnoredResponse("Outgoing message ignored")]
               ELSE [got EXCEPT !.pc = "lookup"]
    /\ UNCHANGED <<queueSide, tokens, webhook, consultations, profiles,
                   consultation_messages>>

\* The consultation lookup, and the sender resolution up to its await.
TKLookup ==
    /\ ticketing.pc = "lookup"
    /\ \E failed \in BOOLEAN :
         LET found == IF failed THEN NoConsultation
                      ELSE FindConsultation(consultations,
                                            IdToString(ticketing.body.conversation_id))
         IN  ticketing' =
               IF found = NoConsultation
               THEN [ticketing EXCEPT !.pc = "done", !.resp = NotFoundResponse]
               ELSE IF ticketing.body.sender_type # "agent"
               THEN [ticketing EXCEPT !.pc = "insert", !.consultation = found,
                                      !.senderId = found.user_id,
                                      !.messageType = "user"]
               ELSE IF found.consultant_id # NoUser
               THEN [ticketing EXCEPT !.pc = "insert", !.consultation = found,
                                      !.senderId = found.consultant_id,
                                      !.messageType = "consultant"]
               ELSE [ticketing EXCEPT !.pc = "admin", !.consultation = found]
    /\ UNCHANGED <<queueSide, tokens, webhook, consultations, profiles,
                   consultation_messages>>

\* TKFindAdmin without the lookup: the message is attributed to the user.
TKFindAdminSkipped ==
    /\ ticketing.pc = "admin"
    /\ ticketing' = [ticketing EXCEPT !.pc = "insert",
                                      !.senderId = ticketing.consultation.user_id,
                                      !.messageType = "system"]
    /\ UNCHANGED <<queueSide, tokens, webhook, consultations, profiles,
                   consultation_messages>>

\* The fallback: .in('role', ['admin','author']).limit(1).single().
TKFindAdmin ==
    /\ ticketing.pc = "admin"
    /\ \/ \E admin \in {r \in profiles : r.role \in {"admin", "author"}} :
            ticketing' = [ticketing EXCEPT !.pc = "insert", !.senderId = admin.id,
                                           !.messageType = "consultant"]
       \/ /\ {r \in profiles : r.role \in {"admin", "author"}} = {}
          /\ ticketing' = [ticketing EXCEPT !.pc = "insert",
                                            !.senderId = ticketing.consultation.user_id,
                                            !.messageType = "system"]
    /\ UNCHANGED <<queueSide, tokens, webhook, consultations, profiles,
                   consultation_messages>>

\* The insert into consultation_messages, and the response.
TKInsert ==
    /\ ticketing.pc = "insert"
    /\ \/ /\ ticketing' = [ticketing EXCEPT !.pc = "done", !.resp = SaveFailedResponse]
          /\ UNCHANGED consultation_messages
       \/ /\ consultation_messages' =
               Append(consultation_messages,
                      [consultation_id |-> ticketing.consultation.id,
                       user_id |-> ticketing.senderId,
                       message_type |-> ticketing.messageType,
                       is_read |-> FALSE])
          /\ ticketing' = [ticketing EXCEPT !.pc = "done", !.resp = SavedResponse]
    /\ UNCHANGED <<queueSide, tokens, webhook, consultations, profiles>>

\* The request is over.
TKReturn ==
    /\ ticketing.pc = "done"
    /\ ticketing' = TicketIdle
    /\ UNCHANGED <<queueSide, tokens, webhook, consultations, profiles,
                   consultation_messages>>

(***************************************************************************)
(* Initial state and specifications.                                       *)
(***************************************************************************)

\* The rows an external producer has queued: pending, not yet sent.
QueueRows ==
    [EntryIds -> [priority : Priorities, scheduled_for : 0..MaxTime,
                  status : {"pending"}, sent_at : {NoTime}]]

TokenRows == [Tokens -> [is_active : BOOLEAN]]

\* The consultations table: one consultation of user ua, linked to conversation 7,
\* with or without an assigned consultant.
ConsultationTables ==
    {{[id |-> "c1", user_id |-> "ua", consultant_id |-> c,
       chatwoot_conversation_id |-> "7"]} : c \in {NoUser, "uc"}}

\* The profiles table: the rows with role admin or author, if any.
ProfileTables ==
    SUBSET {[id |-> "pa", role |-> "admin"], [id |-> "pb", role |-> "author"]}

\* The state before any request, with the tables drawn from the given sets.
InitFrom(queues, tokenTables, consultationTables, profileTables) ==
    /\ queue \in queues
    /\ tokens \in tokenTables
    /\ consultations \in consultationTables
    /\ profiles \in profileTables
    /\ consultation_messages = <<>>
    /\ webhook = WebhookIdle
    /\ ticketing = TicketIdle
    /\ now = 0
    /\ pc = [p \in Procs |-> "idle"]
    /\ notifications = [p \in Procs |-> <<>>]
    /\ messages = [p \in Procs |-> <<>>]
    /\ idx = [p \in Procs |-> 0]
    /\ totalSent = [p \in Procs |-> 0]
    /\ invalidTokens = [p \in Procs |-> {}]
    /\ resp = [p \in Procs |-> NoResponse]
    /\ logged = [p \in Procs |-> {}]
    /\ calls = [p \in Procs |-> <<>>]
    /\ reported = [p \in Procs |-> {}]
    /\ deact = [p \in Procs |-> {}]
    /\ seen = [p \in Procs |-> {}]
    /\ selQueue = [p \in Procs |-> NoQueue]
    /\ selNow = [p \in Procs |-> 0]
    /\ selTokens = [p \in Procs |-> NoTokens]
    /\ prev = "none"

\* A table of each kind, for the scenarios in which that table is not read.
SomeQueue == [e \in EntryIds |-> [priority |-> 1, scheduled_for |-> 0,
                                   status |-> "pending", sent_at |-> NoTime]]

SomeConsultations == {[id |-> "c1", user_id |-> "ua", consultant_id |-> "uc",
                       chatwoot_conversation_id |-> "7"]}

SomeProfiles == {[id |-> "pa", role |-> "admin"]}

Init == InitFrom(QueueRows, TokenRows, {SomeConsultations}, {SomeProfiles})

\* The tables of the overlap scenario: every entry already due, one active device
\* for each user.
InitOverlap ==
    InitFrom({q \in QueueRows : \A e \in EntryIds : q[e].scheduled_for = 0},
             {tk \in TokenRows : \A t \in Tokens : tk[t].is_active <=> t # "t2"},
             {SomeConsultations}, {SomeProfiles})

\* The tables of the webhook scenario: the queue is not read.
InitWebhooks == InitFrom({SomeQueue}, TokenRows, ConsultationTables, ProfileTables)

\* No request is being handled.
Quiescent == \A q \in Procs : pc[q] = "idle"

PQStep(p) ==
    \/ PQMarkProcessing(p)
    \/ PQFetchTokens(p)
    \/ PQSentNoMessages(p)
    \/ PQSendChunk(p)
    \/ PQDeactivate(p)
    \/ PQFinalize(p)

\* Trigger requests may overlap.
NextOverlap ==
    \/ \E p \in Procs : PQSelect(p)
    \/ \E p \in Procs : PQStep(p)

SpecOverlap == InitOverlap /\ [][NextOverlap]_vars

\* Trigger requests are handled one after the other, any number of them.
NextSerial ==
    \/ Tick
    \/ PQSelect(1)
    \/ PQStep(1)
    \/ PQReturn(1)

SpecSerial == Init /\ [][NextSerial]_vars

WHStep ==
    \/ WHFetchTokens
    \/ WHSend
    \/ WHDeactivate
    \/ WHReturn

TKStep ==
    \/ TKLookup
    \/ TKFindAdmin
    \/ TKInsert
    \/ TKReturn

\* No webhook request is being handled.
WebhooksIdle == webhook.pc = "idle" /\ ticketing.pc = "idle"

\* The two webhook deployments, handling one request at a time.  They work on
\* disjoint tables (profile_push_tokens; consultations, profiles and
\* consultation_messages), so the steps of two requests in flight commute.
NextWebhooks ==
    \/ WebhooksIdle /\ WHReceive
    \/ WHStep
    \/ WebhooksIdle /\ TKReceive
    \/ TKStep

SpecWebhooks == InitWebhooks /\ [][NextWebhooks]_vars

\* No request is being handled by either push service.
AllIdle == Quiescent /\ webhook.pc = "idle"

\* The two services that push (Queue Processor, generic-shape Webhook Receiver) on
\* the same tables, handling one request at a time.
Next ==
    \/ Tick
    \/ AllIdle /\ PQSelect(1)
    \/ PQStep(1)
    \/ PQReturn(1)
    \/ AllIdle /\ WHReceive
    \/ WHStep

Spec == Init /\ [][Next]_vars

\* The tables of the frame scenario: entries of one priority, due now or later, one
\* active device for each user.
InitFrame ==
    InitFrom({q \in QueueRows : \A e \in EntryIds : q[e].priority = 1},
             {tk \in TokenRows : \A t \in Tokens : tk[t].is_active <=> t # "t2"},
             {SomeConsultations}, {SomeProfiles})

SpecFrame == InitFrame /\ [][Next]_vars

\* The tables of the push scenario: every entry already due, any token table.
InitPush ==
    InitFrom({q \in QueueRows : \A e \in EntryIds : q[e].scheduled_for = 0},
             TokenRows, {SomeConsultations}, {SomeProfiles})

\* The two services that push, one request at a time, while the clock stands.
NextPush ==
    \/ AllIdle /\ PQSelect(1)
    \/ PQStep(1)
    \/ PQReturn(1)
    \/ AllIdle /\ WHReceive
    \/ WHStep

SpecPush == InitPush /\ [][NextPush]_vars

\* The tables of the mixed scenario: three entries due, one active device for
\* each user and one device already inactive.
InitMixed ==
    InitFrom({SomeQueue},
             {tk \in TokenRows : \A t \in Tokens : tk[t].is_active <=> t # "t2"},
             {SomeConsultations}, {SomeProfiles})

\* Trigger requests, one after the other, interleaved at every await with the
\* requests of the generic-shape webhook.
NextMixed ==
    \/ PQSelect(1)
    \/ PQStep(1)
    \/ PQReturn(1)
    \/ WHReceive
    \/ WHStep

SpecMixed == InitMixed /\ [][NextMixed]_vars

(***************************************************************************)
(* Properties of the Queue Processor under overlapping trigger requests    *)
(* (SpecOverlap).                                                          *)
(***************************************************************************)

StatusRank(s) == CASE s = "pending" -> 0 [] s = "processing" -> 1 [] s = "sent" -> 2

\* C1: no step of any invocation moves the status of a queue entry backward along
\* pending -> processing -> sent.
C1_StatusMonotonic ==
    [][\A e \in EntryIds :
          StatusRank(queue'[e].status) >= StatusRank(queue[e].status)]_vars

\* C3: an invocation whose select ran after another invocation's 'processing'
\* update was applied claims no row the other one claimed; hence a row claimed by
\* two invocations was selected by each before the other's update.
C3_NoReclaimAfterMark ==
    \A p \in Procs : \A q \in seen[p] :
        Range(notifications[p]) \cap Range(notifications[q]) = {}

\* Two invocations, the second selecting after the first one's update, each
\* claiming rows.
C3_Witness ==
    \E p \in Procs : \E q \in seen[p] :
        /\ notifications[p] # <<>>
        /\ notifications[q] # <<>>
        /\ pc[p] = "done" /\ pc[q] = "done"

\* Invocation p had the gateway accept a message for entry e addressed to token t.
Delivered(p, e, t) ==
    \E k \in DOMAIN calls[p] :
        /\ calls[p][k].kind = "ok"
        /\ \E j \in DOMAIN calls[p][k].chunk :
              calls[p][k].chunk[j] = [to |-> t, nid |-> e]

\* C4: two overlapping invocations can both deliver the message of one entry to
\* one token (C4_DuplicateDelivery is reachable), and they do so only when each
\* ran its select before the other applied its 'processing' update.
C4_DuplicateOnlyByRace ==
    \A p, q \in Procs : \A e \in EntryIds : \A t \in Tokens :
        (p # q /\ Delivered(p, e, t) /\ Delivered(q, e, t))
            => (q \notin seen[p] /\ p \notin seen[q])

\* The duplicate delivery: both invocations selected entry e while it was pending
\* and both had a message for e to token t accepted.
C4_DuplicateDelivery ==
    \E p, q \in Procs : \E e \in EntryIds : \E t \in Tokens :
        /\ p # q
        /\ selQueue[p][e].status = "pending" /\ selQueue[q][e].status = "pending"
        /\ Delivered(p, e, t) /\ Delivered(q, e, t)

(***************************************************************************)
(* Properties of the Queue Processor, one trigger request after the other  *)
(* (SpecSerial).                                                           *)
(***************************************************************************)

\* Every row invocation p selected has status sent.
AllClaimedSent(p) == \A e \in Range(notifications[p]) : queue[e].status = "sent"

SortsFirst(q, a, b) ==
    \/ q[a].priority > q[b].priority
    \/ q[a].priority = q[b].priority /\ q[a].scheduled_for < q[b].scheduled_for

\* C5: the rows an invocation claims are the first min(BATCH_SIZE, n) of the n
\* rows pending and due when the select ran, by descending priority then
\* ascending scheduled_for: every claimed row was pending and due, and no
\* unclaimed pending due row sorts strictly before a claimed one.
C5_ClaimOrder ==
    \A p \in Procs :
        (pc[p] # "idle" /\ "fetch" \notin logged[p]) =>
            LET q == selQueue[p]
                ns == notifications[p]
                due == {e \in EntryIds : q[e].status = "pending"
                                          /\ q[e].scheduled_for <= selNow[p]}
                n == Cardinality(due)
            IN  /\ Range(ns) \subseteq due
                /\ \A i, j \in DOMAIN ns : i # j => ns[i] # ns[j]
                /\ Len(ns) = IF n < BATCH_SIZE THEN n ELSE BATCH_SIZE
                /\ \A i, j \in DOMAIN ns : i < j => ~SortsFirst(q, ns[j], ns[i])
                /\ \A u \in due \ Range(ns) : \A c \in Range(ns) : ~SortsFirst(q, u, c)

\* More rows are pending and due than the batch takes; the row left behind sorts
\* after both claimed rows, and the first claimed row, of higher priority, is
\* scheduled later than the second.
C5_Witness ==
    /\ pc[1] = "mark"
    /\ Len(notifications[1]) = BATCH_SIZE
    /\ \E u \in EntryIds \ Range(notifications[1]) :
          /\ selQueue[1][u].status = "pending"
          /\ selQueue[1][u].scheduled_for <= selNow[1]
          /\ \A c \in Range(notifications[1]) : SortsFirst(selQueue[1], c, u)
    /\ selQueue[1][notifications[1][1]].scheduled_for
          > selQueue[1][notifications[1][2]].scheduled_for

\* The chunks of the gateway calls cs, one after the other.
RECURSIVE ConcatChunks(_)
ConcatChunks(cs) ==
    IF cs = <<>> THEN <<>> ELSE Head(cs).chunk \o ConcatChunks(Tail(cs))

\* C6: the chunks sent to the gateway, concatenated in the order they are sent,
\* are the message list (while the loop runs, the part of it already sent); every
\* chunk has between 1 and CHUNK_SIZE messages and only the last may be shorter.
C6_ChunksPartition ==
    \A p \in Procs :
        LET cs == calls[p]
            all == ConcatChunks(cs)
        IN  /\ pc[p] # "send" => all = messages[p]
            /\ pc[p] = "send" => /\ Len(all) < Len(messages[p])
                                 /\ all = SubSeq(messages[p], 1, Len(all))
            /\ \A k \in DOMAIN cs :
                  /\ Len(cs[k].chunk) >= 1
                  /\ Len(cs[k].chunk) <= CHUNK_SIZE
                  /\ k < Len(cs) => Len(cs[k].chunk) = CHUNK_SIZE

\* A message list sent in a full chunk followed by a shorter last chunk.
C6_Witness ==
    /\ pc[1] = "done"
    /\ Len(calls[1]) > 1
    /\ Len(calls[1][Len(calls[1])].chunk) < CHUNK_SIZE
    /\ Len(messages[1]) > CHUNK_SIZE

\* The number of messages in the calls of cs whose outcome is one of kinds.
RECURSIVE MessagesIn(_, _)
MessagesIn(cs, kinds) ==
    IF cs = <<>> THEN 0
    ELSE (IF Head(cs).kind \in kinds THEN Len(Head(cs).chunk) ELSE 0)
         + MessagesIn(Tail(cs), kinds)

\* Every chunk of the message list was attempted once, in order.
EachChunkOnce(p) ==
    LET n == Len(messages[p])
    IN  /\ Len(calls[p]) = (n + CHUNK_SIZE - 1) \div CHUNK_SIZE
        /\ \A k \in DOMAIN calls[p] :
              calls[p][k].chunk =
                  SubSeq(messages[p], (k - 1) * CHUNK_SIZE + 1,
                         IF k * CHUNK_SIZE < n THEN k * CHUNK_SIZE ELSE n)

\* The invocation went through the chunk loop and returned its summary.
Summarised(p) == pc[p] = "done" /\ "invalidTokens" \in resp[p].fields

\* C10 as stated: every chunk is attempted once in order, the response's sent is
\* the number of messages in the chunks whose call returned a success status, and
\* the response reports ok: true.
C10_SentCountsHttpSuccess ==
    \A p \in Procs :
        Summarised(p) =>
            /\ EachChunkOnce(p)
            /\ resp[p].sent = MessagesIn(calls[p], {"ok", "malformed"})
            /\ resp[p].ok /\ resp[p].status = 200

\* C10 amended: every chunk is attempted once in order, the response's sent is
\* the number of messages in the chunks whose call returned a success status with
\* a body that was read as JSON, and the response reports ok: true.
C10_SentCountsParsedSuccess ==
    \A p \in Procs :
        Summarised(p) =>
            /\ EachChunkOnce(p)
            /\ resp[p].sent = MessagesIn(calls[p], {"ok"})
            /\ resp[p].ok /\ resp[p].status = 200

\* Two chunks: the call of the first failed, the call of the second succeeded.
C10_Witness ==
    /\ Summarised(1)
    /\ Len(calls[1]) = 2
    /\ calls[1][1].kind \in {"http_error", "network_error"}
    /\ calls[1][2].kind = "ok"
    /\ resp[1].sent = Len(calls[1][2].chunk)
    /\ resp[1].sent < Len(messages[1])

\* C9 as stated: the invocation that follows another one, no entry having become
\* pending or due in between, answers {ok: true, processed: 0} and changes no entry.
C9_SecondCallEmpty ==
    (prev \in {"failed", "partial", "drained"} /\ pc[1] # "idle") =>
        /\ pc[1] = "done"
        /\ resp[1] = EmptyResponse
        /\ queue = selQueue[1]

\* C9 amended: when the first invocation's select reported no error and returned
\* every pending due entry (at most BATCH_SIZE of them), its 'processing' update
\* reported no error, no entry became due in between and the second select reports
\* no error, the second invocation answers {ok: true, processed: 0} and changes no
\* entry.
C9_SecondCallEmptyWhenDrained ==
    (prev = "drained" /\ pc[1] # "idle" /\ "fetch" \notin logged[1]) =>
        /\ pc[1] = "done"
        /\ resp[1] = EmptyResponse
        /\ queue = selQueue[1]

\* The second invocation has answered; the first one sent an entry, and an entry
\* not yet due is still pending.
C9_Witness ==
    /\ prev = "drained"
    /\ pc[1] = "done"
    /\ resp[1] = EmptyResponse
    /\ \E e \in EntryIds : queue[e].status = "sent"
    /\ \E e \in EntryIds : queue[e].status = "pending" /\ queue[e].scheduled_for > now

(***************************************************************************)
(* Properties of token deactivation in the two services that push         *)
(* (SpecPush).                                                             *)
(***************************************************************************)

\* The token table is the table before with exactly the tokens of ts set inactive.
OnlyDeactivated(before, ts) ==
    \A t \in Tokens : tokens[t].is_active = (before[t].is_active /\ t \notin ts)

NoPush == webhook.calls = <<>> /\ tokens = webhook.tokens0

\* The ticketing-shape request inserted no row.
NoInsert == Len(consultation_messages) = ticketing.rows0

\* C8 as stated: in both variants an event that is outgoing, or whose sender is
\* not an end user, causes no gateway call and no inserted row.
C8_FilteredNeverActs ==
    /\ (webhook.pc # "idle" /\ (webhook.body.message_type = "outgoing"
                                \/ webhook.body.sender_type # "User")) => NoPush
    /\ (ticketing.pc # "idle" /\ (ticketing.body.message_type = "outgoing"
                                  \/ ticketing.body.sender_type # "contact")) => NoInsert

\* C8 amended: in both variants an outgoing event causes no gateway call and no
\* inserted row, and in the generic variant neither does an event whose sender
\* type is not User; the ticketing variant does persist an incoming message of an
\* agent.
C8_OutgoingNeverActs ==
    /\ (webhook.pc # "idle" /\ (webhook.body.message_type = "outgoing"
                                \/ webhook.body.sender_type # "User")) => NoPush
    /\ (ticketing.pc # "idle" /\ ticketing.body.message_type = "outgoing") => NoInsert

\* An outgoing message_created event was acknowledged by the ticketing variant,
\* which holds rows of earlier events.
C8_Witness ==
    /\ ticketing.pc = "done"
    /\ ticketing.method = "POST"
    /\ ticketing.body.event = "message_created"
    /\ ticketing.body.message_type = "outgoing"
    /\ ticketing.resp = IgnoredResponse("Outgoing message ignored")
    /\ ticketing.rows0 > 0

(***************************************************************************)
(* Properties of the message list of the Queue Processor (SpecSerial).     *)
(***************************************************************************)

\* The tokens of user u that are active in the token table tk.
ActiveOf(tk, u) == {t \in Tokens : tk[t].is_active /\ TokenUser(t) = u}

\* One message for every pair of a selected entry and an active token of its user.
ExpectedMessages(ns, tk) ==
    {[to |-> x[2], nid |-> x[1]] :
        x \in {y \in Range(ns) \X Tokens : y[2] \in ActiveOf(tk, EntryUser(y[1]))}}

\* The sum over the users of us of (selected entries of the user) x (active tokens
\* of the user).
RECURSIVE PairCount(_, _, _)
PairCount(us, ns, tk) ==
    IF us = {} THEN 0
    ELSE LET u == CHOOSE v \in us : TRUE
         IN  Cardinality({e \in Range(ns) : EntryUser(e) = u})
                 * Cardinality(ActiveOf(tk, u))
             + PairCount(us \ {u}, ns, tk)

\* Invocation p has built its message list.
Built(p) ==
    \/ pc[p] \in {"empty", "send", "deactivate", "final"}
    \/ pc[p] = "done" /\ "sent" \in resp[p].fields

\* The message list of p holds one message per (selected entry, active token of
\* the entry's user) and nothing else.
ExactExpansion(p) ==
    LET expected == ExpectedMessages(notifications[p], selTokens[p])
    IN  /\ Range(messages[p]) = expected
        /\ Len(messages[p]) = Cardinality(expected)
        /\ Len(messages[p]) = PairCount(Users, notifications[p], selTokens[p])

\* The selected entries of p whose user has no active token have status sent.
TokenlessSent(p) ==
    \A e \in Range(notifications[p]) :
        ActiveOf(selTokens[p], EntryUser(e)) = {} => queue[e].status = "sent"

C12_EveryResponseHasDuration ==
    webhook.pc = "done" => "duration_ms" \in webhook.resp.fields

(***************************************************************************)
(* Properties of the token table under interleaved requests of the two     *)
(* services that push (SpecMixed).                                         *)
(***************************************************************************)

\* C13: a device token that is inactive stays inactive in every step of either
\* service, and no step adds or removes a device token.
C13_InactiveStaysInactive ==
    [][/\ \A t \in Tokens : ~tokens[t].is_active => ~tokens'[t].is_active
       /\ DOMAIN tokens' = DOMAIN tokens]_vars

\* A trigger request and a webhook request have both answered, each after it set a
\* token inactive, and both tokens are inactive.
C13_Witness ==
    /\ pc[1] = "done" /\ deact[1] # {}
    /\ webhook.pc = "done" /\ webhook.deact # {}
    /\ deact[1] \cap webhook.deact = {}
    /\ \A t \in deact[1] \cup webhook.deact : ~tokens[t].is_active

\* The generic-shape request passed the filters and names a user.
Accepted ==
    /\ webhook.body.event = "message_created"
    /\ webhook.body.message_type = "incoming"
    /\ webhook.body.sender_type = "User"
    /\ webhook.body.identifier # NoUser

\* The webhook made one gateway call, with one message for each token of ts.
OneCallTo(ts) ==
    /\ Len(webhook.calls) = 1
    /\ {webhook.calls[1].chunk[k].to : k \in DOMAIN webhook.calls[1].chunk} = ts
    /\ Len(webhook.calls[1].chunk) = Cardinality(ts)

\* What C14 asks of a request for the user with active tokens ts.
OneCallOrNone(ts) ==
    IF ts # {} THEN OneCallTo(ts)
    ELSE webhook.calls = <<>> /\ webhook.resp.ok /\ webhook.resp.status = 200

\* C14 as stated: for an accepted event the webhook makes exactly one gateway
\* call carrying one message per active token of the target user when the user
\* has one, and makes no call and answers success when the user has none.
C14_OneCallPerActiveToken ==
    (Accepted /\ webhook.pc = "done") =>
        OneCallOrNone(ActiveOf(webhook.tokens0, webhook.body.identifier))

\* C14 amended: the same, for an accepted event whose token query reports no
\* error.
C14_OneCallPerActiveTokenUnlessError ==
    (Accepted /\ webhook.pc = "done" /\ webhook.resp.error # "tokens") =>
        OneCallOrNone(ActiveOf(webhook.tokens0, webhook.body.identifier))

\* A request for the user with two active devices answered success after one call
\* with two messages, while the other user's device is active too.
C14_Witness ==
    /\ Accepted /\ webhook.pc = "done"
    /\ webhook.resp = PushedResponse(2)
    /\ Len(webhook.calls) = 1
    /\ Len(webhook.calls[1].chunk) = 2
    /\ \E t \in Tokens : /\ webhook.tokens0[t].is_active
                         /\ TokenUser(t) # webhook.body.identifier

(***************************************************************************)
(* Further properties of the Queue Processor, one trigger request after    *)
(* the other (SpecSerial).                                                 *)
(***************************************************************************)

\* C15: when an invocation is about to make a gateway call, its first one
\* included, every entry it claimed has been marked processing; an invocation
\* whose 'processing' update reported an error makes no gateway call and answers
\* 500.
C15_MarkedBeforeDelivery ==
    \A p \in Procs :
        /\ pc[p] = "send" =>
              \A e \in Range(notifications[p]) : queue[e].status = "processing"
        /\ calls[p] # <<>> => "update" \notin logged[p]
        /\ "update" \in logged[p] =>
              /\ calls[p] = <<>>
              /\ pc[p] = "done"
              /\ resp[p].status = 500 /\ resp[p].fields = {"error"}

\* An invocation that claimed two entries is about to make its first gateway call.
C15_Witness ==
    /\ pc[1] = "send"
    /\ calls[1] = <<>>
    /\ Len(notifications[1]) = 2
    /\ \A e \in Range(notifications[1]) : selQueue[1][e].status = "pending"

(***************************************************************************)
(* Properties of the ticketing-shape webhook (SpecWebhooks).               *)
(***************************************************************************)

\* The consultation linked to the conversation of the request, if any.
Linked ==
    {c \in consultations :
        c.chatwoot_conversation_id = IdToString(ticketing.body.conversation_id)}

\* The ticketing-shape request passed the method check and the two filters.
PassedFilters ==
    /\ ticketing.method = "POST"
    /\ ticketing.body.event = "message_created"
    /\ ticketing.body.message_type # "outgoing"

\* The rows the request has inserted.
Inserted ==
    SubSeq(consultation_messages, ticketing.rows0 + 1, Len(consultation_messages))

\* The ids of the profiles with role admin or author.
AdminIds == {r.id : r \in {x \in profiles : x.role \in {"admin", "author"}}}

\* The row has the sender attribution the policy gives for consultation c.
Attributed(row, c) ==
    IF ticketing.body.sender_type # "agent"
    THEN row.user_id = c.user_id /\ row.message_type = "user"
    ELSE IF c.consultant_id # NoUser
    THEN row.user_id = c.consultant_id /\ row.message_type = "consultant"
    ELSE IF AdminIds # {}
    THEN row.user_id \in AdminIds /\ row.message_type = "consultant"
    ELSE row.user_id = c.user_id /\ row.message_type = "system"

C17_InsertOrError ==
    (ticketing.pc = "done" /\ PassedFilters) =>
        /\ ticketing.resp \in {SavedResponse, NotFoundResponse, SaveFailedResponse}
        /\ ticketing.resp = SavedResponse =>
              /\ Len(Inserted) = 1
              /\ Linked # {}
              /\ ticketing.resp.status = 200
        /\ Linked = {} =>
              /\ Inserted = <<>>
              /\ ticketing.resp = NotFoundResponse
              /\ ticketing.resp.status = 404
        /\ ticketing.resp # SavedResponse => Inserted = <<>>
        /\ ticketing.resp = SaveFailedResponse =>
              ticketing.resp.status = 500 /\ Linked # {}

\* A request for a conversation no consultation is linked to was answered 404,
\* while the table holds the row of an earlier request.
C17_Witness ==
    /\ ticketing.pc = "done" /\ PassedFilters
    /\ Linked = {}
    /\ ticketing.resp = NotFoundResponse
    /\ ticketing.rows0 = 1
    /\ Len(consultation_messages) = 1

(***************************************************************************)
(* Properties of entries left in processing (SpecSerial).                  *)
(***************************************************************************)

\* Entry e is claimed by no invocation that is still running.
Abandoned(e) ==
    \A p \in Procs : e \notin Range(notifications[p]) \/ pc[p] = "done"

\* C18: an entry that is processing while no running invocation holds it (its
\* invocation stopped after the 'processing' update, for example on a token query
\* error) is processing after every step, and no select claims it.
C18_StuckStaysProcessing ==
    [][\A e \in EntryIds :
          (queue[e].status = "processing" /\ Abandoned(e)) =>
              /\ queue'[e].status = "processing"
              /\ \A p \in Procs :
                    (pc[p] = "idle" /\ pc'[p] # "idle")
                        => e \notin Range(notifications'[p])]_vars

\* A later invocation sent an entry and answered, while an entry left behind by
\* an invocation that stopped on a token query error is still processing.
C18_Witness ==
    /\ pc[1] = "done" /\ Summarised(1)
    /\ \E e \in Range(notifications[1]) : queue[e].status = "sent"
    /\ \E e \in EntryIds \ Range(notifications[1]) :
          /\ queue[e].status = "processing"
          /\ selQueue[1][e].status = "processing"

\* Every entry invocation p claimed is processing.
AllClaimedProcessing(p) ==
    \A e \in Range(notifications[p]) : queue[e].status = "processing"

\* C19: while chunks remain to be attempted no token has been deactivated; the
\* deactivation comes after every chunk was attempted (the chunks after a report
\* included, with the messages addressed to the reported token) and before the
\* final 'sent' update, in one update naming every reported token; the response's
\* invalidTokens is the number of distinct tokens reported.
C19_DeactivationAfterChunks ==
    \A p \in Procs :
        /\ pc[p] \in {"send", "deactivate"} =>
              deact[p] = {} /\ tokens = selTokens[p]
        /\ pc[p] = "deactivate" => EachChunkOnce(p) /\ AllClaimedProcessing(p)
        /\ pc[p] = "final" =>
              /\ EachChunkOnce(p)
              /\ deact[p] = reported[p]
              /\ AllClaimedProcessing(p)
        /\ Summarised(p) =>
              /\ resp[p].invalidTokens = Cardinality(reported[p])
              /\ deact[p] = reported[p]

\* A token reported unregistered in the first chunk is still active and is the
\* recipient of a message of the chunk that is sent next.
C19_Witness ==
    /\ pc[1] = "send"
    /\ \E t \in reported[1] :
          /\ tokens[t].is_active
          /\ \E k \in DOMAIN messages[1] : k > idx[1] /\ messages[1][k].to = t

\* Invocation p is between its select and its response and holds entry e.
Holds(p, e) == pc[p] \notin {"idle", "done"} /\ e \in Range(notifications[p])

\* C20: a step changes an entry only if the invocation taking it holds its id, and then
\* only its status and sent_at; the entries an invocation did not select stay as
\* they are; the set of entries never changes; no step of the Webhook Receiver
\* changes the queue.
C20_QueueFrame ==
    [][/\ \A e \in EntryIds :
             queue'[e] # queue[e] =>
                 /\ \E p \in Procs : Holds(p, e) /\ pc'[p] # pc[p]
                 /\ queue'[e].priority = queue[e].priority
                 /\ queue'[e].scheduled_for = queue[e].scheduled_for
       /\ DOMAIN queue' = DOMAIN queue
       /\ webhook' # webhook => queue' = queue]_vars

\* An invocation that delivered has marked its entries sent, and an entry that was
\* not due at its select is exactly as the select found it.
C20_Witness ==
    /\ pc[1] = "done" /\ Summarised(1)
    /\ \E e \in Range(notifications[1]) :
          /\ queue[e].status = "sent"
          /\ queue[e].sent_at # selQueue[1][e].sent_at
    /\ \E e \in EntryIds \ Range(notifications[1]) :
          /\ selQueue[1][e].scheduled_for > selNow[1]
          /\ queue[e] = selQueue[1][e]

=============================================================================
